---- MODULE Spec2Model ----
(***************************************************************************)
(* Model of the property marshaling layer (pkg/resource/plugin/rpc.go) and *)
(* of the Mufile parser (compiler parser, Parse).                          *)
(*                                                                         *)
(* A resource.PropertyValue is a record tagged by t; a structpb.Value is a *)
(* record tagged by k.  A Go panic (contract.Assert / contract.Failf) is   *)
(* the field panic of an operation's result, NoPanic when it returned.     *)
(***************************************************************************)
EXTENDS Integers, Sequences, FiniteSets, TLC

\* ------------------------------------------------------------------ bounds
\* Largest number of nodes of a generated property value or wire value.
MaxNodes == 4
\* Longest generated array / list.
MaxLen == 2

\* --------------------------------------------------- resource.PropertyValue
NullProperty == [t |-> "Null"]
BoolProperty(b) == [t |-> "Bool", b |-> b]
NumberProperty(n) == [t |-> "Number", n |-> n]
StringProperty(s) == [t |-> "String", s |-> s]
ArrayProperty(elems) == [t |-> "Array", elems |-> elems]
ObjectProperty(m) == [t |-> "Object", m |-> m]
AssetProperty(a) == [t |-> "Asset", a |-> a]
ArchiveProperty(r) == [t |-> "Archive", r |-> r]
ComputedProperty(e) == [t |-> "Computed", e |-> e]
OutputProperty(e) == [t |-> "Output", e |-> e]

IsNull(v) == v.t = "Null"
IsBool(v) == v.t = "Bool"
IsNumber(v) == v.t = "Number"
IsString(v) == v.t = "String"
IsArray(v) == v.t = "Array"
IsObject(v) == v.t = "Object"
IsAsset(v) == v.t = "Asset"
IsArchive(v) == v.t = "Archive"
IsComputed(v) == v.t = "Computed"
IsOutput(v) == v.t = "Output"

\* The empty map (of either model).
EmptyMap == [x \in {} |-> NullProperty]

\* The property keys of the model in lexicographic order; sort.Strings and
\* PropertyMap.StableKeys enumerate a map's keys in this order.
KeyOrder == <<"a", "archiveSig", "assetSig", "b", "path", "text", "uri">>

StableKeys(m) == SelectSeq(KeyOrder, LAMBDA key : key \in DOMAIN m)

\* ------------------------------------------------------------ structpb.Value
WNull == [k |-> "Null"]
WBool(b) == [k |-> "Bool", b |-> b]
WNumber(n) == [k |-> "Number", n |-> n]
WString(s) == [k |-> "String", s |-> s]
WList(values) == [k |-> "List", values |-> values]
\* A struct value holds a *structpb.Struct: NilStruct or [Fields |-> map].
WStructValue(st) == [k |-> "Struct", st |-> st]
NilStruct == [nil |-> TRUE]
Struct(fields) == [Fields |-> fields]
\* A nil *structpb.Value, and a Value whose Kind oneof is not set.
NilValue == [k |-> "nil"]
UnsetValue == [k |-> "Unset"]

\* ---------------------------------------------------------------- panics
NoPanic == "none"
PanicInnerComputed == "Assert(!e.IsComputed())"
PanicInnerUnknown == "Assert(known)"
PanicUnrecognizedProperty == "Unrecognized property value"
PanicUnknownsInFinal == "Unexpected unknown properties during final marshaling"
PanicDecodedComputed == "Assert(!v.IsComputed())"
PanicNilValue == "Assert(v != nil)"
PanicUnrecognizedKind == "Unrecognized structpb value kind"

\* MarshalOptions.
MarshalOptions == [SkipNulls : BOOLEAN, OldURNs : BOOLEAN, RawResources : BOOLEAN]

\* ------------------------------------------- plain Go values (interface{})
\* What Asset.Serialize returns and PropertyMap.Mappable produces: untyped
\* values, tagged here by their dynamic Go type.
GoNil == [go |-> "nil"]
GoBool(b) == [go |-> "bool", b |-> b]
GoFloat(n) == [go |-> "float64", n |-> n]
GoString(s) == [go |-> "string", s |-> s]
GoSlice(elems) == [go |-> "slice", elems |-> elems]
GoMap(m) == [go |-> "map", m |-> m]
GoOpaque(v) == [go |-> "opaque", v |-> v]

\* ------------------------------------------------- Asset / Archive codec
\* The reserved discriminator fields and their values, and the payload
\* fields: inline content or a location reference.
AssetSigKey == "assetSig"
ArchiveSigKey == "archiveSig"
AssetSig == "asset-signature"
ArchiveSig == "archive-signature"
AssetPayloadKeys == {"text", "path"}
ArchivePayloadKeys == {"path", "uri"}

\* Asset.Serialize / Archive.Serialize: a self-describing generic mapping.
SerializeAsset(a) == (AssetSigKey :> GoString(AssetSig)) @@ (a.kind :> GoString(a.data))

SerializeArchive(r) == (ArchiveSigKey :> GoString(ArchiveSig)) @@ (r.kind :> GoString(r.data))

\* The payload fields of a generic mapping that hold a string.
PayloadFields(objmap, payloadKeys) ==
    {key \in payloadKeys \cap DOMAIN objmap : objmap[key].go = "string"}

\* resource.DeserializeAsset: the discriminator field and exactly one payload
\* field; anything else is "not a match".
DeserializeAsset(objmap) ==
    LET payload == PayloadFields(objmap, AssetPayloadKeys)
        isasset == /\ AssetSigKey \in DOMAIN objmap
                   /\ objmap[AssetSigKey] = GoString(AssetSig)
                   /\ Cardinality(payload) = 1
    IN  IF isasset
        THEN LET key == CHOOSE x \in payload : TRUE
             IN  [ok |-> TRUE, value |-> [kind |-> key, data |-> objmap[key].s]]
        ELSE [ok |-> FALSE, value |-> [kind |-> "", data |-> ""]]

\* resource.DeserializeArchive.
DeserializeArchive(objmap) ==
    LET payload == PayloadFields(objmap, ArchivePayloadKeys)
        isarchive == /\ ArchiveSigKey \in DOMAIN objmap
                     /\ objmap[ArchiveSigKey] = GoString(ArchiveSig)
                     /\ Cardinality(payload) = 1
    IN  IF isarchive
        THEN LET key == CHOOSE x \in payload : TRUE
             IN  [ok |-> TRUE, value |-> [kind |-> key, data |-> objmap[key].s]]
        ELSE [ok |-> FALSE, value |-> [kind |-> "", data |-> ""]]

\* PropertyMap.Mappable: the plain view of a property map.
RECURSIVE MappableValue(_)
MappableValue(v) ==
    CASE IsNull(v) -> GoNil
      [] IsBool(v) -> GoBool(v.b)
      [] IsNumber(v) -> GoFloat(v.n)
      [] IsString(v) -> GoString(v.s)
      [] IsArray(v) -> GoSlice([i \in 1..Len(v.elems) |-> MappableValue(v.elems[i])])
      [] IsObject(v) -> GoMap([key \in DOMAIN v.m |-> MappableValue(v.m[key])])
      [] OTHER -> GoOpaque(v)

Mappable(obj) == [key \in DOMAIN obj |-> MappableValue(obj[key])]

\* resource.NewPropertyMapFromMap: the typed view of a plain mapping.
RECURSIVE NewPropertyValue(_)
NewPropertyValue(g) ==
    CASE g.go = "nil" -> NullProperty
      [] g.go = "bool" -> BoolProperty(g.b)
      [] g.go = "float64" -> NumberProperty(g.n)
      [] g.go = "string" -> StringProperty(g.s)
      [] g.go = "slice" -> ArrayProperty([i \in 1..Len(g.elems) |-> NewPropertyValue(g.elems[i])])
      [] g.go = "map" -> ObjectProperty([key \in DOMAIN g.m |-> NewPropertyValue(g.m[key])])
      [] OTHER -> g.v

NewPropertyMapFromMap(m) == [key \in DOMAIN m |-> NewPropertyValue(m[key])]

\* ------------------------------------------------------------- marshaling
MarshalNull(opts) == WNull

MarshalString(s, opts) == WString(s)

MarshalStruct(obj, opts) == WStructValue(obj)

\* What a marshal of one value returns: (w, known), or a panic.
Marshaled(w, known) == [panic |-> NoPanic, w |-> w, known |-> known]
MarshalPanic(msg) == [panic |-> msg, w |-> NilValue, known |-> TRUE]

RECURSIVE MarshalPropertyValue(_, _)
RECURSIVE MarshalPropsLoop(_, _, _, _)
RECURSIVE MarshalElemsLoop(_, _, _, _)

\* Mutant: output properties are marshaled like any other.
MarshalPropsLoopKeepOutputs(props, keys, opts, acc) ==
    IF keys = <<>> THEN acc
    ELSE LET key == Head(keys)
             v == props[key]
         IN  IF opts.SkipNulls /\ IsNull(v)
             THEN MarshalPropsLoop(props, Tail(keys), opts, acc)
             ELSE LET m == MarshalPropertyValue(v, opts)
                  IN  IF m.panic # NoPanic THEN [acc EXCEPT !.panic = m.panic]
                      ELSE MarshalPropsLoop(props, Tail(keys), opts,
                              [panic |-> NoPanic,
                               result |-> Struct((key :> m.w) @@ acc.result.Fields),
                               unk |-> IF m.known THEN acc.unk ELSE acc.unk \cup {key}])

\* Mutant: nulls are skipped whether or not SkipNulls asks for it.
MarshalPropsLoopSkipNulls(props, keys, opts, acc) ==
    IF keys = <<>> THEN acc
    ELSE LET key == Head(keys)
             v == props[key]
         IN  IF IsOutput(v) \/ IsNull(v)
             THEN MarshalPropsLoop(props, Tail(keys), opts, acc)
             ELSE LET m == MarshalPropertyValue(v, opts)
                  IN  IF m.panic # NoPanic THEN [acc EXCEPT !.panic = m.panic]
                      ELSE MarshalPropsLoop(props, Tail(keys), opts,
                              [panic |-> NoPanic,
                               result |-> Struct((key :> m.w) @@ acc.result.Fields),
                               unk |-> IF m.known THEN acc.unk ELSE acc.unk \cup {key}])

\* The loop of MarshalPropertiesWithUnknowns over the keys still to visit;
\* acc is (result, unk) so far.  unk = {} is the nil map: the code never
\* makes an empty one.
MarshalPropsLoop(props, keys, opts, acc) ==
    IF keys = <<>> THEN acc
    ELSE LET key == Head(keys)
             v == props[key]
         IN  IF IsOutput(v) THEN MarshalPropsLoop(props, Tail(keys), opts, acc)
             ELSE IF opts.SkipNulls /\ IsNull(v)
                  THEN MarshalPropsLoop(props, Tail(keys), opts, acc)
             ELSE LET m == MarshalPropertyValue(v, opts)
                  IN  IF m.panic # NoPanic THEN [acc EXCEPT !.panic = m.panic]
                      ELSE MarshalPropsLoop(props, Tail(keys), opts,
                              [panic |-> NoPanic,
                               result |-> Struct((key :> m.w) @@ acc.result.Fields),
                               unk |-> IF m.known THEN acc.unk ELSE acc.unk \cup {key}])

MarshalPropertiesWithUnknowns(props, opts) ==
    MarshalPropsLoop(props, StableKeys(props), opts,
                     [panic |-> NoPanic, result |-> Struct(EmptyMap), unk |-> {}])

\* Mutant: the unknown keys are not asserted to be none.
MarshalPropertiesNoAssert(props, opts) == MarshalPropertiesWithUnknowns(props, opts)

\* MarshalProperties: the strict marshal.
MarshalProperties(props, opts) ==
    LET r == MarshalPropertiesWithUnknowns(props, opts)
    IN  IF r.panic # NoPanic THEN r
        ELSE IF r.unk # {} THEN [r EXCEPT !.panic = PanicUnknownsInFinal]
        ELSE r

\* Mutant: the outcome is not updated with the elements' flags.
MarshalElemsLoopKeepsOutcome(elems, i, opts, acc) ==
    IF i > Len(elems) THEN acc
    ELSE LET m == MarshalPropertyValue(elems[i], opts)
         IN  IF m.panic # NoPanic THEN MarshalPanic(m.panic)
             ELSE MarshalElemsLoop(elems, i + 1, opts,
                     Marshaled(Append(acc.w, m.w), acc.known))

\* The loop of the array case; acc is (elems, outcome) so far.
MarshalElemsLoop(elems, i, opts, acc) ==
    IF i > Len(elems) THEN acc
    ELSE LET m == MarshalPropertyValue(elems[i], opts)
         IN  IF m.panic # NoPanic THEN MarshalPanic(m.panic)
             ELSE MarshalElemsLoop(elems, i + 1, opts,
                     Marshaled(Append(acc.w, m.w), acc.known /\ m.known))

\* Mutant: the element's known flag is not asserted.
MarshalPlaceholderNoAssertKnown(e, opts) ==
    IF IsComputed(e) THEN MarshalPanic(PanicInnerComputed)
    ELSE LET m == MarshalPropertyValue(e, opts)
         IN  IF m.panic # NoPanic THEN m ELSE Marshaled(m.w, FALSE)

\* The computed and output cases: the element's wire form as a placeholder.
MarshalPlaceholder(e, opts) ==
    IF IsComputed(e) THEN MarshalPanic(PanicInnerComputed)
    ELSE LET m == MarshalPropertyValue(e, opts)
         IN  IF m.panic # NoPanic THEN m
             ELSE IF ~m.known THEN MarshalPanic(PanicInnerUnknown)
             ELSE Marshaled(m.w, FALSE)

MarshalAsset(a, opts) ==
    LET sera == SerializeAsset(a)
        serap == NewPropertyMapFromMap(sera)
    IN  MarshalPropertyValue(ObjectProperty(serap), opts)

MarshalArchive(r, opts) ==
    LET sera == SerializeArchive(r)
        serap == NewPropertyMapFromMap(sera)
    IN  MarshalPropertyValue(ObjectProperty(serap), opts)

MarshalPropertyValue(v, opts) ==
    IF IsNull(v) THEN Marshaled(MarshalNull(opts), TRUE)
    ELSE IF IsBool(v) THEN Marshaled(WBool(v.b), TRUE)
    ELSE IF IsNumber(v) THEN Marshaled(WNumber(v.n), TRUE)
    ELSE IF IsString(v) THEN Marshaled(MarshalString(v.s, opts), TRUE)
    ELSE IF IsArray(v)
         THEN LET r == MarshalElemsLoop(v.elems, 1, opts, Marshaled(<<>>, TRUE))
              IN  IF r.panic # NoPanic THEN r ELSE Marshaled(WList(r.w), r.known)
    ELSE IF IsAsset(v) THEN MarshalAsset(v.a, opts)
    ELSE IF IsArchive(v) THEN MarshalArchive(v.r, opts)
    ELSE IF IsObject(v)
         THEN LET r == MarshalPropertiesWithUnknowns(v.m, opts)
              IN  IF r.panic # NoPanic THEN MarshalPanic(r.panic)
                  ELSE Marshaled(MarshalStruct(r.result, opts), r.unk = {})
    ELSE IF IsComputed(v) THEN MarshalPlaceholder(v.e, opts)
    ELSE IF IsOutput(v) THEN MarshalPlaceholder(v.e, opts)
    ELSE MarshalPanic(PanicUnrecognizedProperty)

\* ----------------------------------------------------------- unmarshaling
\* What an unmarshal returns: a property value (or map), or a panic.
Unmarshaled(v) == [panic |-> NoPanic, v |-> v]
UnmarshalPanic(msg) == [panic |-> msg, v |-> NullProperty]

RECURSIVE UnmarshalPropertyValue(_, _)
RECURSIVE UnmarshalPropsLoop(_, _, _, _)
RECURSIVE UnmarshalElemsLoop(_, _, _, _)

\* The field names of a struct, sorted; none when the struct is nil.
SortedFieldNames(props) == IF props = NilStruct THEN <<>> ELSE StableKeys(props.Fields)

\* Mutant: a decoded Null is dropped whether or not SkipNulls asks for it.
UnmarshalPropsLoopSkipNulls(props, keys, opts, result) ==
    IF keys = <<>> THEN Unmarshaled(result)
    ELSE LET key == Head(keys)
             u == UnmarshalPropertyValue(props.Fields[key], opts)
         IN  IF u.panic # NoPanic THEN u
             ELSE IF IsComputed(u.v) THEN UnmarshalPanic(PanicDecodedComputed)
             ELSE IF IsNull(u.v)
                  THEN UnmarshalPropsLoop(props, Tail(keys), opts, result)
             ELSE UnmarshalPropsLoop(props, Tail(keys), opts, (key :> u.v) @@ result)

\* The loop of UnmarshalProperties over the sorted field names; result is
\* the map so far.
UnmarshalPropsLoop(props, keys, opts, result) ==
    IF keys = <<>> THEN Unmarshaled(result)
    ELSE LET key == Head(keys)
             u == UnmarshalPropertyValue(props.Fields[key], opts)
         IN  IF u.panic # NoPanic THEN u
             ELSE IF IsComputed(u.v) THEN UnmarshalPanic(PanicDecodedComputed)
             ELSE IF opts.SkipNulls /\ IsNull(u.v)
                  THEN UnmarshalPropsLoop(props, Tail(keys), opts, result)
             ELSE UnmarshalPropsLoop(props, Tail(keys), opts, (key :> u.v) @@ result)

UnmarshalProperties(props, opts) ==
    UnmarshalPropsLoop(props, SortedFieldNames(props), opts, EmptyMap)

\* Mutant: each decoded element is put in front of the ones before it.
UnmarshalElemsLoopReversed(values, i, opts, elems) ==
    IF i > Len(values) THEN Unmarshaled(elems)
    ELSE LET u == UnmarshalPropertyValue(values[i], opts)
         IN  IF u.panic # NoPanic THEN u
             ELSE UnmarshalElemsLoop(values, i + 1, opts, <<u.v>> \o elems)

\* The loop of the list case: elems[i] is set from the i-th value.
UnmarshalElemsLoop(values, i, opts, elems) ==
    IF i > Len(values) THEN Unmarshaled(elems)
    ELSE LET u == UnmarshalPropertyValue(values[i], opts)
         IN  IF u.panic # NoPanic THEN u
             ELSE UnmarshalElemsLoop(values, i + 1, opts, Append(elems, u.v))

\* Mutant: the archive recognizer is asked first.
SniffArchiveFirst(obj) ==
    LET objmap == Mappable(obj)
        asset == DeserializeAsset(objmap)
        archive == DeserializeArchive(objmap)
    IN  IF archive.ok THEN ArchiveProperty(archive.value)
        ELSE IF asset.ok THEN AssetProperty(asset.value)
        ELSE ObjectProperty(obj)

\* Mutant: the decoded map is returned as an object without the check for a
\* recoverable type.
SniffNothing(obj) == ObjectProperty(obj)

\* The struct case after the fields are decoded: the asset recognizer, then
\* the archive recognizer, then a plain object.
Sniff(obj) ==
    LET objmap == Mappable(obj)
        asset == DeserializeAsset(objmap)
        archive == DeserializeArchive(objmap)
    IN  IF asset.ok THEN AssetProperty(asset.value)
        ELSE IF archive.ok THEN ArchiveProperty(archive.value)
        ELSE ObjectProperty(obj)

UnmarshalPropertyValue(v, opts) ==
    IF v = NilValue THEN UnmarshalPanic(PanicNilValue)
    ELSE CASE v.k = "Null" -> Unmarshaled(NullProperty)
           [] v.k = "Bool" -> Unmarshaled(BoolProperty(v.b))
           [] v.k = "Number" -> Unmarshaled(NumberProperty(v.n))
           [] v.k = "String" -> Unmarshaled(StringProperty(v.s))
           [] v.k = "List" ->
                LET r == UnmarshalElemsLoop(v.values, 1, opts, <<>>)
                IN  IF r.panic # NoPanic THEN r ELSE Unmarshaled(ArrayProperty(r.v))
           [] v.k = "Struct" ->
                LET r == UnmarshalProperties(v.st, opts)
                IN  IF r.panic # NoPanic THEN r ELSE Unmarshaled(Sniff(r.v))
           [] OTHER -> UnmarshalPanic(PanicUnrecognizedKind)

\* ----------------------------------------------------------------- parser
\* diag.Document: the extension and the body of a Mufile.
Extensions == {".json", ".yaml", ".txt"}
\* encoding.Marshalers: the extensions with a registered marshaler.
Marshalers == {".json", ".yaml"}
Bodies == {"name: s", "name: [", ""}
\* marshaler.Unmarshal: an error for a body with a syntax error.
UnmarshalErr(body) == body = "name: ["
Documents == [Ext : Extensions, Body : Bodies]
NilStack == [nil |-> TRUE]
StackOf(doc) == [Body |-> doc.Body]
\* Most errors the diagnostics sink counts in the model.
MaxDiagErrors == 3

\* ---------------------------------------------------------------- inputs
\* The keys of generated maps, and the scalars generated.
GenKeys == {"a", "b"}
TextAsset == [kind |-> "text", data |-> "x"]
PathArchive == [kind |-> "path", data |-> "x"]

\* The i-th of the keys K in key order.
KeysOf(K) == SelectSeq(KeyOrder, LAMBDA key : key \in K)
MapOf(K, s) ==
    [key \in K |-> s[CHOOSE i \in 1..Len(s) : KeysOf(K)[i] = key]]

\* The sequences of len values of bySize whose sizes add up to total.
RECURSIVE SeqsOf(_, _, _)
SeqsOf(bySize, len, total) ==
    IF len = 0 THEN (IF total = 0 THEN {<<>>} ELSE {})
    ELSE UNION {{<<x>> \o s : x \in bySize[i], s \in SeqsOf(bySize, len - 1, total - i)} :
                i \in 1..(total - (len - 1))}

\* The key sets of generated maps: the first keys of GenKeys.
KeySetsOf(n) == {K \in {{"a"}, GenKeys} : Cardinality(K) <= n}

\* Property values by number of nodes.  The atoms are the values of one node
\* that generated arrays, objects and placeholders are built from.
AssetLike == ObjectProperty(NewPropertyMapFromMap(SerializeAsset(TextAsset)))
ArchiveLike == ObjectProperty(NewPropertyMapFromMap(SerializeArchive(PathArchive)))
PropAtoms ==
    {NullProperty, BoolProperty(TRUE), NumberProperty(1), StringProperty("x"),
     AssetProperty(TextAsset), ArchiveProperty(PathArchive), AssetLike}

PropsOfSize(bySize, n) ==
    {ComputedProperty(e) : e \in bySize[n - 1]}
    \cup {OutputProperty(e) : e \in bySize[n - 1]}
    \cup UNION {{ArrayProperty(s) : s \in SeqsOf(bySize, len, n - 1)} : len \in 1..MaxLen}
    \cup UNION {{ObjectProperty(MapOf(K, s)) : s \in SeqsOf(bySize, Cardinality(K), n - 1)} :
                K \in KeySetsOf(n - 1)}

RECURSIVE PropsBySize(_)
PropsBySize(n) ==
    IF n = 1 THEN <<PropAtoms>>
    ELSE LET prev == PropsBySize(n - 1) IN Append(prev, PropsOfSize(prev, n))

\* The values given to the marshal functions: the generated ones, and some
\* that are given only as they are.
PropExtras ==
    {ArrayProperty(<<>>), ObjectProperty(EmptyMap), ArchiveLike,
     AssetProperty([kind |-> "path", data |-> "x"]),
     ArchiveProperty([kind |-> "uri", data |-> "x"])}
PropValues == PropExtras \cup UNION {PropsBySize(MaxNodes)[i] : i \in 1..MaxNodes}
PropMaps == {v.m : v \in {x \in PropValues : IsObject(x)}}

\* Wire values by number of nodes: what a provider may reply.
WireOfMap(m) == WStructValue(Struct(m))
AssetWire == (AssetSigKey :> WString(AssetSig)) @@ ("text" :> WString("x"))
ArchiveWire == (ArchiveSigKey :> WString(ArchiveSig)) @@ ("uri" :> WString("x"))
BothSigs ==
    (AssetSigKey :> WString(AssetSig)) @@ (ArchiveSigKey :> WString(ArchiveSig))
        @@ ("path" :> WString("x"))
WireAtoms == {WNull, WBool(TRUE), WNumber(1), WString("x"), WireOfMap(AssetWire)}

WiresOfSize(bySize, n) ==
    UNION {{WList(s) : s \in SeqsOf(bySize, len, n - 1)} : len \in 1..MaxLen}
    \cup UNION {{WireOfMap(MapOf(K, s)) : s \in SeqsOf(bySize, Cardinality(K), n - 1)} :
                K \in KeySetsOf(n - 1)}

RECURSIVE WiresBySize(_)
WiresBySize(n) ==
    IF n = 1 THEN <<WireAtoms>>
    ELSE LET prev == WiresBySize(n - 1) IN Append(prev, WiresOfSize(prev, n))

\* The replies that are given only as they are: the empty and the nil
\* containers, the mappings that carry a discriminator field, and the values
\* outside the closed kind set.
WireExtras ==
    {WList(<<>>), WireOfMap(EmptyMap), WStructValue(NilStruct),
     WireOfMap(ArchiveWire), WireOfMap(BothSigs),
     WList(<<WireOfMap(BothSigs), WireOfMap(ArchiveWire)>>),
     WireOfMap((AssetSigKey :> WString(AssetSig)) @@ ("text" :> WNull)),
     WireOfMap((AssetSigKey :> WString(AssetSig)) @@ ("text" :> WString("x"))
                   @@ ("path" :> WString("x"))),
     WireOfMap((AssetSigKey :> WString("x")) @@ ("text" :> WString("x"))),
     WireOfMap((ArchiveSigKey :> WString(ArchiveSig)) @@ ("a" :> WString("x"))),
     NilValue, UnsetValue, WList(<<WNull, NilValue>>), WireOfMap(("a" :> UnsetValue))}
WireValues == WireExtras \cup UNION {WiresBySize(MaxNodes)[i] : i \in 1..MaxNodes}
WireStructs == {w.st : w \in {x \in WireValues : x.k = "Struct"}}

\* The options of a call.
OptionSets == MarshalOptions

\* ------------------------------------------------------------------ state
VARIABLES
    marshalOp,    \* the marshal function called, "none" before
    unmarshalOp,  \* the unmarshal function called, "none" before
    opts,         \* the MarshalOptions of the calls
    pin,          \* the property value or map given to the marshal function
    wire,         \* the wire value or struct in flight
    known,        \* the known flag (a value) or the unknown-key set (a map)
    pout,         \* the property value or map the unmarshal function returned
    panic,        \* NoPanic, or the assertion that failed
    parsed,       \* the last Parse call: its document, stack and report
    diagErrors,   \* the errors the diagnostics sink has counted
    exited        \* the process was terminated

vars == <<marshalOp, unmarshalOp, opts, pin, wire, known, pout, panic, parsed,
          diagErrors, exited>>

rpcVars == <<marshalOp, unmarshalOp, opts, pin, wire, known, pout, panic>>
parserVars == <<parsed, diagErrors, exited>>

None == [none |-> TRUE]
NoParse == [doc |-> None, stack |-> NilStack, reported |-> FALSE]

Init ==
    /\ marshalOp = "none"
    /\ unmarshalOp = "none"
    /\ opts \in OptionSets
    /\ pin = None
    /\ wire = None
    /\ known = None
    /\ pout = None
    /\ panic = NoPanic
    /\ parsed = NoParse
    /\ diagErrors = 0
    /\ exited = FALSE

\* Nothing has been called yet.
Idle == marshalOp = "none" /\ unmarshalOp = "none" /\ parsed = NoParse

\* A marshal call: r is what the function returned.
Marshal(name, input, r, flag) ==
    /\ marshalOp' = name
    /\ pin' = input
    /\ panic' = r.panic
    /\ wire' = IF r.panic = NoPanic THEN (IF name \in {"MarshalPropertiesWithUnknowns", "MarshalProperties"} THEN r.result ELSE r.w) ELSE None
    /\ known' = IF r.panic = NoPanic THEN flag ELSE None
    /\ UNCHANGED <<unmarshalOp, opts, pout, parsed, diagErrors, exited>>

CallMarshalPropertiesWithUnknowns ==
    /\ Idle
    /\ \E props \in PropMaps :
        LET r == MarshalPropertiesWithUnknowns(props, opts)
        IN  Marshal("MarshalPropertiesWithUnknowns", props, r, r.unk)

CallMarshalProperties ==
    /\ Idle
    /\ \E props \in PropMaps :
        LET r == MarshalProperties(props, opts)
        IN  Marshal("MarshalProperties", props, r, r.unk)

CallMarshalPropertyValue ==
    /\ Idle
    /\ \E v \in PropValues :
        LET r == MarshalPropertyValue(v, opts)
        IN  Marshal("MarshalPropertyValue", v, r, r.known)

CallMarshalAsset ==
    /\ Idle
    /\ \E v \in {x \in PropValues : IsAsset(x)} :
        LET r == MarshalAsset(v.a, opts)
        IN  Marshal("MarshalAsset", v, r, r.known)

CallMarshalArchive ==
    /\ Idle
    /\ \E v \in {x \in PropValues : IsArchive(x)} :
        LET r == MarshalArchive(v.r, opts)
        IN  Marshal("MarshalArchive", v, r, r.known)

\* An unmarshal call on w: of a provider's reply, or of the wire form a
\* marshal call returned.
Unmarshal(name, w, r) ==
    /\ unmarshalOp' = name
    /\ wire' = w
    /\ panic' = r.panic
    /\ pout' = IF r.panic = NoPanic THEN r.v ELSE None
    /\ UNCHANGED <<marshalOp, opts, pin, known, parsed, diagErrors, exited>>

CallUnmarshalProperties ==
    \/ /\ Idle
       /\ \E props \in WireStructs :
            Unmarshal("UnmarshalProperties", props, UnmarshalProperties(props, opts))
    \/ /\ marshalOp \in {"MarshalPropertiesWithUnknowns", "MarshalProperties"}
       /\ unmarshalOp = "none" /\ panic = NoPanic
       /\ Unmarshal("UnmarshalProperties", wire, UnmarshalProperties(wire, opts))

CallUnmarshalPropertyValue ==
    \/ /\ Idle
       /\ \E w \in WireValues :
            Unmarshal("UnmarshalPropertyValue", w, UnmarshalPropertyValue(w, opts))
    \/ /\ marshalOp \in {"MarshalPropertyValue", "MarshalAsset", "MarshalArchive"}
       /\ unmarshalOp = "none" /\ panic = NoPanic
       /\ Unmarshal("UnmarshalPropertyValue", wire, UnmarshalPropertyValue(wire, opts))

\* parser.Parse: the marshaler of the document's extension decodes the body.
Parse ==
    /\ marshalOp = "none" /\ unmarshalOp = "none"
    /\ ~exited
    /\ diagErrors < MaxDiagErrors
    /\ \E doc \in Documents :
        IF doc.Ext \notin Marshalers
        THEN \* glog.Fatalf logs and ends the process; nothing is returned.
             /\ exited' = TRUE
             /\ parsed' = [doc |-> doc, stack |-> NilStack, reported |-> FALSE]
             /\ UNCHANGED diagErrors
        ELSE IF UnmarshalErr(doc.Body)
        THEN /\ diagErrors' = diagErrors + 1
             /\ parsed' = [doc |-> doc, stack |-> NilStack, reported |-> TRUE]
             /\ UNCHANGED exited
        ELSE /\ parsed' = [doc |-> doc, stack |-> StackOf(doc), reported |-> FALSE]
             /\ UNCHANGED <<diagErrors, exited>>
    /\ UNCHANGED rpcVars

Next ==
    \/ CallMarshalPropertiesWithUnknowns
    \/ CallMarshalProperties
    \/ CallMarshalPropertyValue
    \/ CallMarshalAsset
    \/ CallMarshalArchive
    \/ CallUnmarshalProperties
    \/ CallUnmarshalPropertyValue
    \/ Parse

Spec == Init /\ [][Next]_vars

\* =================================================================== claims
\* ---- the states the claims speak of
MarshaledValue == marshalOp = "MarshalPropertyValue"
MarshaledMap == marshalOp = "MarshalPropertiesWithUnknowns"
RoundTripValue == MarshaledValue /\ unmarshalOp = "UnmarshalPropertyValue"
RoundTripMap == MarshaledMap /\ unmarshalOp = "UnmarshalProperties"

\* ---- shapes of property values
\* Built only from Null, Bool, Number, String, Array and Object.
RECURSIVE PlainValue(_)
PlainValue(v) ==
    \/ v.t \in {"Null", "Bool", "Number", "String"}
    \/ IsArray(v) /\ \A i \in 1..Len(v.elems) : PlainValue(v.elems[i])
    \/ IsObject(v) /\ \A key \in DOMAIN v.m : PlainValue(v.m[key])

PlainMap(m) == \A key \in DOMAIN m : PlainValue(m[key])

\* Some map inside v has a key whose value is Null.
RECURSIVE HasNullKey(_)
HasNullKey(v) ==
    \/ IsArray(v) /\ \E i \in 1..Len(v.elems) : HasNullKey(v.elems[i])
    \/ IsObject(v) /\ \E key \in DOMAIN v.m : IsNull(v.m[key]) \/ HasNullKey(v.m[key])

\* A mapping one of the two recognizers accepts.
Recognized(m) ==
    DeserializeAsset(Mappable(m)).ok \/ DeserializeArchive(Mappable(m)).ok

\* Some Object inside v (v included) is a mapping a recognizer accepts.
RECURSIVE HasRecognized(_)
HasRecognized(v) ==
    \/ IsArray(v) /\ \E i \in 1..Len(v.elems) : HasRecognized(v.elems[i])
    \/ IsObject(v) /\ (Recognized(v.m) \/ \E key \in DOMAIN v.m : HasRecognized(v.m[key]))

\* v holds a Computed or an Output value, at any depth.
RECURSIVE ContainsUnknown(_)
ContainsUnknown(v) ==
    \/ IsComputed(v) \/ IsOutput(v)
    \/ IsArray(v) /\ \E i \in 1..Len(v.elems) : ContainsUnknown(v.elems[i])
    \/ IsObject(v) /\ \E key \in DOMAIN v.m : ContainsUnknown(v.m[key])

\* v, given to MarshalPropertyValue, is or holds a Computed or Output value
\* that is marshaled: reached through Arrays and through the keys of Objects
\* whose value is not an Output.
RECURSIVE Unresolved(_)
UnresolvedMap(m) == \E key \in DOMAIN m : ~IsOutput(m[key]) /\ Unresolved(m[key])
Unresolved(v) ==
    \/ IsComputed(v) \/ IsOutput(v)
    \/ IsArray(v) /\ \E i \in 1..Len(v.elems) : Unresolved(v.elems[i])
    \/ IsObject(v) /\ UnresolvedMap(v.m)

\* The known flag as the marshaling table states it.
RECURSIVE KnownFlag(_)
KnownFlag(v) ==
    CASE IsArray(v) -> \A i \in 1..Len(v.elems) : KnownFlag(v.elems[i])
      [] IsObject(v) -> {key \in DOMAIN v.m : ~IsOutput(v.m[key]) /\ ~KnownFlag(v.m[key])} = {}
      [] IsComputed(v) \/ IsOutput(v) -> FALSE
      [] OTHER -> TRUE

\* A Computed is reached from v through Arrays and Objects only.
RECURSIVE ReachesComputed(_)
ReachesComputed(v) ==
    \/ IsComputed(v)
    \/ IsArray(v) /\ \E i \in 1..Len(v.elems) : ReachesComputed(v.elems[i])
    \/ IsObject(v) /\ \E key \in DOMAIN v.m : ReachesComputed(v.m[key])

\* ---------------------------------------------------------------------- C1
\* C1 as stated: unmarshaling the wire form of a value (or map) built only
\* from Null, Bool, Number, String, Array and Object returns a value (map)
\* equal to the original, whatever the options.
C1_RoundTripAsStated ==
    /\ (RoundTripValue /\ PlainValue(pin)) => (panic = NoPanic /\ pout = pin)
    /\ (RoundTripMap /\ PlainMap(pin)) => (panic = NoPanic /\ pout = pin)

\* The round trip keeps every key and recognizes no mapping.
Preserved(v) == (~opts.SkipNulls \/ ~HasNullKey(v)) /\ ~HasRecognized(v)

PreservedMap(m) ==
    /\ ~opts.SkipNulls \/ ~HasNullKey(ObjectProperty(m))
    /\ \A key \in DOMAIN m : ~HasRecognized(m[key])

\* C1 as amended: the round trip returns the original value (map) when it is
\* built only from Null, Bool, Number, String, Array and Object, SkipNulls is
\* false or no map in it has a Null-valued key, and no Object in it is a
\* mapping that the Asset or Archive recognizer accepts.
C1_RoundTrip ==
    /\ (RoundTripValue /\ PlainValue(pin) /\ Preserved(pin))
          => (panic = NoPanic /\ pout = pin)
    /\ (RoundTripMap /\ PlainMap(pin) /\ PreservedMap(pin))
          => (panic = NoPanic /\ pout = pin)

\* A nested value with a Null-valued key made the round trip with
\* SkipNulls = false.
C1_Witness ==
    /\ RoundTripValue /\ PlainValue(pin) /\ Preserved(pin)
    /\ IsArray(pin) /\ Len(pin.elems) = 2 /\ HasNullKey(pin)
    /\ pout = pin

\* ---------------------------------------------------------------------- C2
\* C2 as stated: MarshalProperties aborts exactly when the map holds a
\* Computed or an Output value.
C2_StrictAsStated ==
    marshalOp = "MarshalProperties" =>
        ((panic # NoPanic) <=> (\E key \in DOMAIN pin : ContainsUnknown(pin[key])))

\* C2 as amended: MarshalProperties aborts exactly when some key whose value
\* is not an Output holds a value that is, or holds (through Arrays and
\* through the keys of Objects whose value is not an Output), a Computed
\* value or an Output value that is an Array element; keys whose value is an
\* Output are left out and do not make it abort.
C2_Strict ==
    marshalOp = "MarshalProperties" =>
        /\ (panic # NoPanic) <=> UnresolvedMap(pin)
        /\ (panic = NoPanic) => (known = {})

\* The strict marshal aborted on a Computed nested in an Array, on its own
\* assertion.
C2_Witness ==
    /\ marshalOp = "MarshalProperties"
    /\ panic = PanicUnknownsInFinal
    /\ \E key \in DOMAIN pin : IsArray(pin[key]) /\ ReachesComputed(pin[key])

\* ---------------------------------------------------------------------- C3
\* C3: when MarshalPropertiesWithUnknowns completes, the unknown keys are the
\* fields of the returned struct whose value marshals with known = false (the
\* flag of the marshaling table), so a key from which a Computed is reached
\* through Arrays and Objects is unknown, and the unknown keys are fields.
C3_UnknownPropagation ==
    MarshaledMap /\ panic = NoPanic =>
        /\ known = {key \in DOMAIN wire.Fields : ~KnownFlag(pin[key])}
        /\ known \subseteq DOMAIN wire.Fields
        /\ \A key \in DOMAIN pin : (ReachesComputed(pin[key]) => key \in known)

\* A Computed below a key, inside an Array or Object, made the key unknown.
C3_Witness ==
    /\ MarshaledMap /\ panic = NoPanic
    /\ \E key \in DOMAIN pin :
          ~IsComputed(pin[key]) /\ ReachesComputed(pin[key]) /\ key \in known

\* ---------------------------------------------------------------------- C4
\* v without its Output values: the keys of maps and the elements of arrays
\* whose value is an Output are removed.
RECURSIVE StripOutputs(_)
StripOutputsMap(m) ==
    [key \in {x \in DOMAIN m : ~IsOutput(m[x])} |-> StripOutputs(m[key])]
StripOutputs(v) ==
    CASE IsArray(v) ->
            LET kept == SelectSeq(v.elems, LAMBDA x : ~IsOutput(x))
            IN  ArrayProperty([i \in 1..Len(kept) |-> StripOutputs(kept[i])])
      [] IsObject(v) -> ObjectProperty(StripOutputsMap(v.m))
      [] OTHER -> v

\* In the wire form w of v, no key of an Object whose value is an Output is
\* a field, at any level.
RECURSIVE OutputKeysAbsent(_, _)
OutputKeysAbsent(v, w) ==
    CASE IsObject(v) ->
            \A key \in DOMAIN v.m :
                IF IsOutput(v.m[key]) THEN key \notin DOMAIN w.st.Fields
                ELSE key \in DOMAIN w.st.Fields
                        => OutputKeysAbsent(v.m[key], w.st.Fields[key])
      [] IsArray(v) -> \A i \in 1..Len(v.elems) : OutputKeysAbsent(v.elems[i], w.values[i])
      [] IsComputed(v) \/ IsOutput(v) -> OutputKeysAbsent(v.e, w)
      [] OTHER -> TRUE

\* C4 as stated: every key whose value is an Output is absent from the struct
\* and from the unknown keys, at every Object level, and no Output value is
\* sent at all: the struct is the one of the map without its Output values.
C4_OutputSuppressionAsStated ==
    (MarshaledMap /\ panic = NoPanic) =>
        /\ OutputKeysAbsent(ObjectProperty(pin), WStructValue(wire))
        /\ \A key \in DOMAIN pin : (IsOutput(pin[key]) => key \notin known)
        /\ wire = MarshalPropertiesWithUnknowns(StripOutputsMap(pin), opts).result

\* C4 as amended: every key whose value is an Output is absent from the
\* struct and from the unknown keys, at the top level and in every nested
\* Object; an Output that is an element of an Array is not suppressed: the
\* wire form of its element is sent in its place in the List, and the key
\* that holds the Array is reported unknown.
C4_OutputSuppression ==
    (MarshaledMap /\ panic = NoPanic) =>
        /\ OutputKeysAbsent(ObjectProperty(pin), WStructValue(wire))
        /\ \A key \in DOMAIN pin : (IsOutput(pin[key]) => key \notin known)
        /\ \A key \in DOMAIN pin :
              IsArray(pin[key]) =>
                  \A i \in 1..Len(pin[key].elems) :
                      IsOutput(pin[key].elems[i]) =>
                          /\ key \in known
                          /\ wire.Fields[key].values[i]
                                = MarshalPropertyValue(pin[key].elems[i].e, opts).w

\* A map with an Output under a key of a nested Object was marshaled.
C4_Witness ==
    /\ MarshaledMap /\ panic = NoPanic
    /\ \E key \in DOMAIN pin :
          /\ IsObject(pin[key])
          /\ \E k2 \in DOMAIN pin[key].m : IsOutput(pin[key].m[k2])
          /\ wire.Fields[key].st.Fields = EmptyMap

\* ---------------------------------------------------------------------- C5
\* The wire form w of v leaves out the Null-valued keys when SkipNulls is
\* set, and only them and the Output-valued keys; a Null that is kept is the
\* wire Null.
RECURSIVE NullsMarshaled(_, _)
NullsMarshaled(v, w) ==
    CASE IsObject(v) ->
            /\ DOMAIN w.st.Fields =
                   {key \in DOMAIN v.m :
                       ~IsOutput(v.m[key]) /\ ~(opts.SkipNulls /\ IsNull(v.m[key]))}
            /\ \A key \in DOMAIN w.st.Fields :
                   /\ IsNull(v.m[key]) => w.st.Fields[key] = WNull
                   /\ NullsMarshaled(v.m[key], w.st.Fields[key])
      [] IsArray(v) -> \A i \in 1..Len(v.elems) : NullsMarshaled(v.elems[i], w.values[i])
      [] IsComputed(v) \/ IsOutput(v) -> NullsMarshaled(v.e, w)
      [] OTHER -> TRUE

\* The value v decoded from w leaves out the fields that hold the wire Null
\* when SkipNulls is set, and only them; a wire Null that is kept is Null.
RECURSIVE NullsUnmarshaled(_, _)
NullsUnmarshaled(w, v) ==
    CASE w.k = "Struct" /\ IsObject(v) ->
            IF w.st = NilStruct THEN v.m = EmptyMap
            ELSE /\ DOMAIN v.m =
                        {key \in DOMAIN w.st.Fields :
                            ~(opts.SkipNulls /\ w.st.Fields[key] = WNull)}
                 /\ \A key \in DOMAIN v.m :
                        /\ w.st.Fields[key] = WNull <=> IsNull(v.m[key])
                        /\ NullsUnmarshaled(w.st.Fields[key], v.m[key])
      [] w.k = "List" ->
            \A i \in 1..Len(w.values) : NullsUnmarshaled(w.values[i], v.elems[i])
      [] OTHER -> TRUE

\* C5: with SkipNulls = true the Null-valued keys are left out of the struct
\* MarshalPropertiesWithUnknowns returns and of the map UnmarshalProperties
\* returns, at every nesting level, and all other keys (but the Output
\* ones) are kept; with SkipNulls = false every key (but the Output ones) is
\* in the result, Null as wire Null and wire Null as Null.
C5_NullSkipping ==
    /\ (MarshaledMap /\ panic = NoPanic /\ unmarshalOp = "none")
          => NullsMarshaled(ObjectProperty(pin), WStructValue(wire))
    /\ (unmarshalOp = "UnmarshalProperties" /\ panic = NoPanic)
          => NullsUnmarshaled(WStructValue(wire), ObjectProperty(pout))

\* With SkipNulls = true a nested Object lost its Null-valued key and kept
\* the other one.
C5_Witness ==
    /\ MarshaledMap /\ panic = NoPanic /\ unmarshalOp = "none" /\ opts.SkipNulls
    /\ \E key \in DOMAIN pin :
          /\ IsObject(pin[key])
          /\ DOMAIN pin[key].m = {"a", "b"}
          /\ IsNull(pin[key].m["a"])
          /\ DOMAIN wire.Fields[key].st.Fields = {"b"}

\* ---------------------------------------------------------------------- C6
\* C6: MarshalAsset and MarshalArchive return with known = true, and
\* unmarshaling what they return gives back the Asset as an Asset property
\* and the Archive as an Archive property, equal to the original.
C6_AssetArchiveFidelity ==
    /\ marshalOp = "MarshalAsset" =>
          /\ IsAsset(pin) /\ panic = NoPanic /\ known = TRUE
          /\ unmarshalOp = "UnmarshalPropertyValue" => (IsAsset(pout) /\ pout = pin)
    /\ marshalOp = "MarshalArchive" =>
          /\ IsArchive(pin) /\ panic = NoPanic /\ known = TRUE
          /\ unmarshalOp = "UnmarshalPropertyValue" => (IsArchive(pout) /\ pout = pin)
    /\ (MarshaledValue /\ (IsAsset(pin) \/ IsArchive(pin))) =>
          /\ panic = NoPanic /\ known = TRUE
          /\ unmarshalOp = "UnmarshalPropertyValue" => pout = pin

\* An Archive whose payload field an Asset may carry too came back as the
\* same Archive.
C6_Witness ==
    /\ marshalOp = "MarshalArchive" /\ unmarshalOp = "UnmarshalPropertyValue"
    /\ pin = ArchiveProperty(PathArchive)
    /\ pout = pin

\* ---------------------------------------------------------------------- C7
\* C7: a Parse call returns a stack without reporting an error, or returns
\* nil after reporting one through the diagnostics sink; it never terminates
\* the process.
C7_ParseReports ==
    parsed # NoParse =>
        /\ ~exited
        /\ \/ parsed.stack # NilStack /\ ~parsed.reported
           \/ parsed.stack = NilStack /\ parsed.reported

\* ---------------------------------------------------------------------- C8
MarshaledPlaceholder == MarshaledValue /\ (IsComputed(pin) \/ IsOutput(pin))

\* C8 as stated: MarshalPropertyValue of Computed(e) or Output(e) aborts
\* exactly when e is itself Computed, and otherwise returns the wire form of
\* e with known = false.
C8_PlaceholderAsStated ==
    MarshaledPlaceholder =>
        /\ (panic # NoPanic) <=> IsComputed(pin.e)
        /\ (panic = NoPanic) =>
              (known = FALSE /\ wire = MarshalPropertyValue(pin.e, opts).w)

\* C8 as amended: MarshalPropertyValue of Computed(e) or Output(e) aborts
\* exactly when e is itself Computed or the marshal of e aborts or returns
\* known = false, that is when e is or holds a Computed or Output value that
\* is marshaled (an Output, or an Array or Object with a Computed in it);
\* otherwise it returns the wire form of e with known = false.
C8_Placeholder ==
    MarshaledPlaceholder =>
        /\ (panic # NoPanic) <=> Unresolved(pin.e)
        /\ IsComputed(pin.e) => panic = PanicInnerComputed
        /\ (panic = NoPanic) =>
              (known = FALSE /\ wire = MarshalPropertyValue(pin.e, opts).w)

\* A Computed whose element is an Object with only an Output under a key was
\* marshaled: the placeholder is the empty struct.
C8_Witness ==
    /\ MarshaledPlaceholder /\ panic = NoPanic /\ known = FALSE
    /\ IsObject(pin.e) /\ ContainsUnknown(pin.e)

\* ---------------------------------------------------------------------- C9
\* A wire value of the closed kind set.
RECURSIVE ClosedWire(_)
ClosedStruct(st) ==
    st = NilStruct \/ \A key \in DOMAIN st.Fields : ClosedWire(st.Fields[key])
ClosedWire(w) ==
    \/ w.k \in {"Null", "Bool", "Number", "String"}
    \/ w.k = "List" /\ \A i \in 1..Len(w.values) : ClosedWire(w.values[i])
    \/ w.k = "Struct" /\ ClosedStruct(w.st)

\* C9: on a wire value of the closed kind set UnmarshalPropertyValue and
\* UnmarshalProperties return without a panic, what they return holds no
\* Computed and no Output, a nil struct gives the empty map, and a List gives
\* an Array of the same length with each element decoded in its place.
C9_UnmarshalTotal ==
    /\ (unmarshalOp = "UnmarshalProperties" /\ ClosedStruct(wire)) =>
          /\ panic = NoPanic
          /\ \A key \in DOMAIN pout : ~ContainsUnknown(pout[key])
          /\ wire = NilStruct => pout = EmptyMap
    /\ (unmarshalOp = "UnmarshalPropertyValue" /\ ClosedWire(wire)) =>
          /\ panic = NoPanic
          /\ ~ContainsUnknown(pout)
          /\ wire.k = "List" =>
                /\ IsArray(pout) /\ Len(pout.elems) = Len(wire.values)
                /\ \A i \in 1..Len(wire.values) :
                      pout.elems[i] = UnmarshalPropertyValue(wire.values[i], opts).v

\* A provider's List of two different values was decoded.
C9_Witness ==
    /\ marshalOp = "none" /\ unmarshalOp = "UnmarshalPropertyValue"
    /\ ClosedWire(wire) /\ wire.k = "List" /\ Len(wire.values) = 2
    /\ wire.values[1] # wire.values[2]
    /\ panic = NoPanic

\* --------------------------------------------------------------------- C10
\* C10: a decoded struct is offered to the Asset recognizer first and to the
\* Archive recognizer only when that fails: a mapping both accept comes back
\* as an Asset, one only the Archive recognizer accepts as an Archive, and
\* one neither accepts as the Object of UnmarshalProperties of the struct.
C10_SniffPrecedence ==
    (unmarshalOp = "UnmarshalPropertyValue" /\ panic = NoPanic /\ wire.k = "Struct") =>
        LET obj == UnmarshalProperties(wire.st, opts).v
            asset == DeserializeAsset(Mappable(obj))
            archive == DeserializeArchive(Mappable(obj))
        IN  /\ asset.ok => pout = AssetProperty(asset.value)
            /\ (~asset.ok /\ archive.ok) => pout = ArchiveProperty(archive.value)
            /\ (~asset.ok /\ ~archive.ok) => pout = ObjectProperty(obj)

\* A mapping both recognizers accept was decoded.
C10_Witness ==
    /\ unmarshalOp = "UnmarshalPropertyValue" /\ panic = NoPanic
    /\ wire.k = "Struct" /\ wire.st # NilStruct
    /\ LET obj == UnmarshalProperties(wire.st, opts).v
       IN  DeserializeAsset(Mappable(obj)).ok /\ DeserializeArchive(Mappable(obj)).ok
    /\ IsAsset(pout)

====
